---------------------------- MODULE Spec2Model ----------------------------
(***************************************************************************)
(* A model of the webhook logger's fan-out server (type server and its     *)
(* methods): the registry fanOut guarded by mu, the shared inbound channel *)
(* messages, the run() goroutines started by ServeHTTP, and the three      *)
(* handlers serveIndex, logOutput and webhookReceiver.                     *)
(*                                                                         *)
(* Strings (cookie values, the Authorization header, the bearer token) are *)
(* sequences of one-character strings.  A message is the number of the     *)
(* accepted publish that enqueued it (1 for the first body put on          *)
(* s.messages, 2 for the second, ...): bodies are opaque to the server.    *)
(***************************************************************************)
EXTENDS Integers, Sequences, FiniteSets, TLC

(* ------------------------------ bounds -------------------------------- *)

\* Publishes accepted in one behaviour of the server with its streams.
MaxMsgs == 2

\* Publishes accepted in one behaviour of the specification of the inbound
\* queue, which has no /logs connection: enough of them to fill a listener's
\* channel, stop a run() goroutine on it, fill s.messages and make a
\* publisher wait.
MaxBacklog == 4

\* Publishes accepted in one behaviour of the specification of the sessions.
MaxSessionMsgs == 1

\* Largest clock reading time.Now().UnixNano() returns in one behaviour.
MaxClock == 2

\* Channels made by addListener in one behaviour.
MaxChans == 2

\* /logs connections upgraded in one behaviour.
MaxConns == 2

\* Capacity of s.messages and of every listener channel
\* (make(chan string, msgBuffer)); 1_000 in the program, scaled down.
msgBuffer == 1

VARIABLES
    bearer,     \* s.bearer, fixed at construction
    now,        \* the last reading of the clock
    fanOut,     \* s.fanOut: session identifier -> channel (an index of chans)
    chans,      \* every channel addListener has made, in order of creation
    messages,   \* s.messages, the buffered inbound channel
    nPub,       \* number of bodies put on s.messages so far
    blocked,    \* webhookReceiver calls waiting in `s.messages <- body`
    mu,         \* s.mu: TRUE while a run() goroutine holds it
    nRun,       \* number of run() goroutines started
    busy,       \* the run() goroutines that hold a message; the others wait in `<-s.messages`
    conns,      \* the logOutput calls that upgraded their connection
    removed     \* identifiers removeListener deleted and addListener has not issued since

vars == <<bearer, now, fanOut, chans, messages, nPub, blocked, mu, nRun, busy,
          conns, removed>>

(* ------------------------------ strings ------------------------------- *)

Digits == <<"0", "1", "2", "3", "4", "5", "6", "7", "8", "9">>

IsDigit(ch) == \E d \in 1..10 : Digits[d] = ch

DigitVal(ch) == (CHOOSE d \in 1..10 : Digits[d] = ch) - 1

RECURSIVE Sprint(_)
\* fmt.Sprint(idx) of a non-negative int64: its decimal digits.
Sprint(n) ==
    IF n < 10 THEN <<Digits[n + 1]>>
    ELSE Sprint(n \div 10) \o <<Digits[(n % 10) + 1]>>

RECURSIVE DigitsValue(_)
DigitsValue(s) ==
    IF s = <<>> THEN 0
    ELSE 10 * DigitsValue(SubSeq(s, 1, Len(s) - 1)) + DigitVal(s[Len(s)])

\* strconv.ParseInt(s, 10, 64): an optional sign, then one or more decimal
\* digits.  The values of the model are far from the int64 range.
ParseInt(s) ==
    IF s = <<>> THEN [err |-> TRUE, val |-> 0]
    ELSE LET signed == s[1] \in {"+", "-"}
             body == IF signed THEN Tail(s) ELSE s
         IN  IF body = <<>> \/ \E i \in 1..Len(body) : ~IsDigit(body[i])
             THEN [err |-> TRUE, val |-> 0]
             ELSE [err |-> FALSE,
                   val |-> IF s[1] = "-" THEN 0 - DigitsValue(body)
                           ELSE DigitsValue(body)]

\* A request's idx cookie: absent, or present with a value.
NoCookie == [present |-> FALSE, value |-> <<>>]

Cookie(v) == [present |-> TRUE, value |-> v]

\* parseCookie answering 1 where it has no number to answer.
parseCookieDefault(cookie) ==
    IF ~cookie.present THEN 1
    ELSE IF ParseInt(cookie.value).err THEN 1
    ELSE ParseInt(cookie.value).val

parseCookie(cookie) ==
    IF ~cookie.present THEN 0
    ELSE IF ParseInt(cookie.value).err THEN 0
    ELSE ParseInt(cookie.value).val

Lower(ch) ==
    CASE ch = "B" -> "b"
      [] ch = "E" -> "e"
      [] ch = "A" -> "a"
      [] ch = "R" -> "r"
      [] ch = "S" -> "s"
      [] ch = "I" -> "i"
      [] ch = "C" -> "c"
      [] OTHER -> ch

\* strings.ToLower
ToLower(s) == [i \in 1..Len(s) |-> Lower(s[i])]

\* strings.SplitN(s, " ", 2): s cut at its first space, or s alone.
SplitN2(s) ==
    IF \E i \in 1..Len(s) : s[i] = " "
    THEN LET i == CHOOSE j \in 1..Len(s) :
                      s[j] = " " /\ \A k \in 1..(j - 1) : s[k] # " "
         IN  <<SubSeq(s, 1, i - 1), SubSeq(s, i + 1, Len(s))>>
    ELSE <<s>>

(* ------------------------------ inputs -------------------------------- *)

\* The tokens the server is configured with: none, or a word.
Bearers == { <<>>, <<"s">> }

\* Authorization headers of a request; <<>> is what Header.Get returns for
\* an absent header.
Headers ==
    { <<>>,
      <<"B", "e", "a", "r", "e", "r", " ", "s">>,
      <<"b", "e", "a", "r", "e", "r", " ", "s">>,
      <<"B", "e", "a", "r", "e", "r", " ", "x">>,
      <<"B", "a", "s", "i", "c", " ", "s">> }

\* More of both, for the specification of the bearer check alone.
AuthBearers == Bearers \cup { <<"s", " ", "t">> }

AuthHeaders ==
    Headers \cup
    { <<"B", "E", "A", "R", "E", "R", " ", "s">>,
      <<"B", "e", "a", "r", "e", "r", " ", "s", " ", "t">>,
      <<"B", "e", "a", "r", "e", "r", " ", " ", "s">>,
      <<"B", "e", "a", "r", "e", "r", " ", "s", " ">>,
      <<"B", "e", "a", "r", "e", "r", " ", "S">>,
      <<"B", "e", "a", "r", "e", "r", " ">>,
      <<"B", "e", "a", "r", "e", "r">>,
      <<"B", "e", "a", "r", "e", "r", "s">>,
      <<" ", "s">>,
      <<"s">> }

\* idx cookies of a request: none, the decimal identifiers, and values that
\* are no decimal identifier.
Cookies ==
    {NoCookie}
      \cup {Cookie(Sprint(i)) : i \in 0..MaxClock}
      \cup {Cookie(<<"x">>), Cookie(<<"+", "1">>)}

\* The requests for each path: <<method, cookie>>, <<method, cookie, whether
\* the upgrade succeeds>>, <<method, Authorization, whether the body is read>>.
IndexRequests == ({"GET"} \X Cookies) \cup {<<"POST", NoCookie>>}

LogsRequests == ({"GET"} \X Cookies \X BOOLEAN) \cup {<<"POST", NoCookie, TRUE>>}

WebhookRequests(H) == ({"POST"} \X H \X BOOLEAN) \cup {<<"GET", <<>>, TRUE>>}

(* ------------------------------- state -------------------------------- *)

Nil == 0

Range(f) == {f[x] : x \in DOMAIN f}

EmptyMap == [i \in {} |-> Nil]

MapPut(m, k, v) == [i \in DOMAIN m \cup {k} |-> IF i = k THEN v ELSE m[i]]

\* A delete that deletes nothing.
MapDeleteNothing(m, k) == m

\* A delete that empties the map.
MapDeleteAll(m, k) == EmptyMap

\* delete(m, k)
MapDelete(m, k) == [i \in DOMAIN m \ {k} |-> m[i]]

\* The messages a channel holds: those sent on it and not yet received.
Buf(c) == SubSeq(chans[c].hist, chans[c].head + 1, Len(chans[c].hist))

Full(c) == Len(Buf(c)) >= msgBuffer

\* Messages accepted whose fan-out has not begun: still on s.messages, or
\* taken by a run() goroutine that waits for s.mu.
Unbegun == Range(messages) \cup {w.msg : w \in {v \in busy : v.pc = "lock"}}

\* Identifiers addListener has returned.
Issued == {chans[c].idx : c \in 1..Len(chans)}

\* The server run() builds, but for its token.
InitServer ==
    /\ now = 1
    /\ fanOut = EmptyMap
    /\ chans = <<>>
    /\ messages = <<>>
    /\ nPub = 0
    /\ blocked = 0
    /\ mu = FALSE
    /\ nRun = 0
    /\ busy = {}
    /\ conns = <<>>
    /\ removed = {}

Init == bearer \in Bearers /\ InitServer

(* --------------------------- the registry ----------------------------- *)

\* The registry methods going on without the mutex.
HandlerNoLock == TRUE

\* s.mu.Lock() in addListener, getListener and removeListener: the call
\* goes on when no run() goroutine holds the mutex.
HandlerLock == ~mu

getListener(idx) == IF idx \in DOMAIN fanOut THEN fanOut[idx] ELSE Nil

\* addListener at clock reading t.  regAt and regPend record, for the
\* properties, what had been published and what of it was not yet fanned
\* out when the channel was made.
addListener(t) ==
    /\ Len(chans) < MaxChans
    /\ now' = t
    /\ chans' = Append(chans, [idx |-> t, hist |-> <<>>, head |-> 0,
                               regAt |-> nPub, regPend |-> Unbegun])
    /\ fanOut' = MapPut(fanOut, t, Len(chans) + 1)
    /\ removed' = removed \ {t}

removeListener(idx) ==
    /\ fanOut' = MapDelete(fanOut, idx)
    /\ removed' = removed \cup {idx}

(* ----------------------------- ServeHTTP ------------------------------ *)

\* `go s.run()`: every request starts another run() goroutine.  A goroutine
\* holds at most one message at a time and there are at most MaxBacklog
\* messages, so goroutines past the first MaxBacklog can never be told from
\* the idle ones already counted, and nRun stops counting there.
goRun == IF nRun < MaxBacklog THEN nRun + 1 ELSE nRun

\* What a handler answers: the status, and the value of the idx cookie it
\* sets (<<>> when it sets none).
Response(status, cookie) == [status |-> status, cookie |-> cookie]

\* serveIndex registering a listener whatever the cookie.
indexMissAlways(cookie) == TRUE

\* serveIndex looks the cookie up, and finds no live listener under it.
indexMiss(cookie) == ~cookie.present \/ getListener(parseCookie(cookie)) = Nil

serveIndex(method, cookie, t) ==
    /\ nRun' = goRun
    /\ IF method # "GET"
       THEN UNCHANGED <<now, fanOut, chans, removed>>
       ELSE /\ HandlerLock
            /\ IF indexMiss(cookie)
               THEN addListener(t)
               ELSE UNCHANGED <<now, fanOut, chans, removed>>
    /\ UNCHANGED <<bearer, messages, nPub, blocked, mu, busy, conns>>

serveIndexResponse(method, cookie, t) ==
    IF method # "GET" THEN Response(405, <<>>)
    ELSE IF indexMiss(cookie) THEN Response(200, Sprint(t))
    ELSE Response(200, <<>>)

\* The bearer check with the scheme compared as it is written.
bearerOkCaseSensitive(auth) ==
    \/ bearer = <<>>
    \/ LET parts == SplitN2(auth)
       IN  /\ Len(parts) = 2
           /\ parts[1] = <<"b", "e", "a", "r", "e", "r">>
           /\ parts[2] = bearer

\* The bearer check of webhookReceiver.
bearerOk(auth) ==
    \/ bearer = <<>>
    \/ LET parts == SplitN2(auth)
       IN  /\ Len(parts) = 2
           /\ ToLower(parts[1]) = <<"b", "e", "a", "r", "e", "r">>
           /\ parts[2] = bearer

\* `s.messages <- body` going through.
Enqueue ==
    /\ Len(messages) < msgBuffer
    /\ nPub' = nPub + 1
    /\ messages' = Append(messages, nPub + 1)

\* webhookReceiver without the check of the method.
webhookReceiverAnyMethod(method, auth, bodyOk) ==
    /\ nRun' = goRun
    /\ IF ~bearerOk(auth) \/ ~bodyOk
       THEN UNCHANGED <<messages, nPub, blocked>>
       ELSE /\ nPub + blocked < MaxBacklog
            /\ IF Len(messages) < msgBuffer
               THEN Enqueue /\ UNCHANGED blocked
               ELSE /\ blocked' = blocked + 1
                    /\ UNCHANGED <<messages, nPub>>
    /\ UNCHANGED <<bearer, now, fanOut, chans, mu, busy, conns, removed>>

webhookReceiver(method, auth, bodyOk) ==
    /\ nRun' = goRun
    /\ IF method # "POST" \/ ~bearerOk(auth) \/ ~bodyOk
       THEN UNCHANGED <<messages, nPub, blocked>>
       ELSE /\ nPub + blocked < MaxBacklog
            /\ IF Len(messages) < msgBuffer
               THEN Enqueue /\ UNCHANGED blocked
               ELSE /\ blocked' = blocked + 1
                    /\ UNCHANGED <<messages, nPub>>
    /\ UNCHANGED <<bearer, now, fanOut, chans, mu, busy, conns, removed>>

\* The status webhookReceiver answers with (for an accepted request, once
\* its send on s.messages has gone through).
webhookStatus(method, auth, bodyOk) ==
    IF method # "POST" THEN 405
    ELSE IF ~bearerOk(auth) THEN 401
    ELSE IF ~bodyOk THEN 500
    ELSE 200

\* A webhookReceiver call blocked on the full s.messages goes on.
webhookSend ==
    /\ blocked > 0
    /\ Enqueue
    /\ blocked' = blocked - 1
    /\ UNCHANGED <<bearer, now, fanOut, chans, mu, nRun, busy, conns, removed>>

logOutput(method, cookie, upgraded) ==
    /\ nRun' = goRun
    /\ IF method # "GET" \/ parseCookie(cookie) = 0
       THEN UNCHANGED conns
       ELSE /\ HandlerLock
            /\ IF getListener(parseCookie(cookie)) = Nil \/ ~upgraded
               THEN UNCHANGED conns
               ELSE /\ Len(conns) < MaxConns
                    /\ conns' = Append(conns,
                          [idx |-> parseCookie(cookie),
                           ch |-> getListener(parseCookie(cookie)),
                           pc |-> "range", alive |-> TRUE,
                           sent |-> <<>>, since |-> nPub])
    /\ UNCHANGED <<bearer, now, fanOut, chans, messages, nPub, blocked, mu,
                   busy, removed>>

\* The status logOutput answers with; 101 stands for the upgraded connection.
logOutputStatus(method, cookie, upgraded) ==
    IF method # "GET" THEN 405
    ELSE IF parseCookie(cookie) = 0 THEN 401
    ELSE IF getListener(parseCookie(cookie)) = Nil THEN 400
    ELSE IF ~upgraded THEN 500
    ELSE 101

\* A request for any other path: ServeHTTP's switch has no case for it.
otherPath ==
    /\ nRun < MaxBacklog
    /\ nRun' = goRun
    /\ UNCHANGED <<bearer, now, fanOut, chans, messages, nPub, blocked, mu,
                   busy, conns, removed>>

(* ------------------------- the /logs stream --------------------------- *)

\* The peer of connection k goes away, or the network under it fails.
connLost(k) ==
    /\ conns[k].pc = "range"
    /\ conns[k].alive
    /\ conns' = [conns EXCEPT ![k].alive = FALSE]
    /\ UNCHANGED <<bearer, now, fanOut, chans, messages, nPub, blocked, mu,
                   nRun, busy, removed>>

\* The loop giving every connection of the channel its own copy of a
\* message: the message leaves the channel when all of them were pushed it.
logOutputLoopCopy(k) ==
    /\ conns[k].pc = "range"
    /\ Buf(conns[k].ch) # <<>>
    /\ Head(Buf(conns[k].ch)) \notin Range(conns[k].sent)
    /\ chans' = IF \A j \in (1..Len(conns)) \ {k} :
                      conns[j].ch = conns[k].ch /\ conns[j].pc = "range"
                         => Head(Buf(conns[k].ch)) \in Range(conns[j].sent)
                THEN [chans EXCEPT ![conns[k].ch].head = @ + 1]
                ELSE chans
    /\ conns' = IF conns[k].alive
                THEN [conns EXCEPT ![k].sent = Append(@, Head(Buf(conns[k].ch)))]
                ELSE [conns EXCEPT ![k].pc = "defer"]
    /\ UNCHANGED <<bearer, now, fanOut, messages, nPub, blocked, mu, nRun,
                   busy, removed>>

\* The loop throwing away the first message of the channel.
logOutputLoopSkipFirst(k) ==
    /\ conns[k].pc = "range"
    /\ Buf(conns[k].ch) # <<>>
    /\ chans' = [chans EXCEPT ![conns[k].ch].head = @ + 1]
    /\ conns' = IF conns[k].alive
                THEN IF chans[conns[k].ch].head = 0
                     THEN conns
                     ELSE [conns EXCEPT ![k].sent = Append(@, Head(Buf(conns[k].ch)))]
                ELSE [conns EXCEPT ![k].pc = "defer"]
    /\ UNCHANGED <<bearer, now, fanOut, messages, nPub, blocked, mu, nRun,
                   busy, removed>>

\* One turn of `for msg := range ch`: receive a message and push it as a
\* frame; a failed push leaves the loop.
logOutputLoop(k) ==
    /\ conns[k].pc = "range"
    /\ Buf(conns[k].ch) # <<>>
    /\ chans' = [chans EXCEPT ![conns[k].ch].head = @ + 1]
    /\ conns' = IF conns[k].alive
                THEN [conns EXCEPT ![k].sent = Append(@, Head(Buf(conns[k].ch)))]
                ELSE [conns EXCEPT ![k].pc = "defer"]
    /\ UNCHANGED <<bearer, now, fanOut, messages, nPub, blocked, mu, nRun,
                   busy, removed>>

\* The deferred conn.Close() and s.removeListener(idx).
logOutputDefer(k) ==
    /\ conns[k].pc = "defer"
    /\ HandlerLock
    /\ removeListener(conns[k].idx)
    /\ conns' = [conns EXCEPT ![k].pc = "done"]
    /\ UNCHANGED <<bearer, now, chans, messages, nPub, blocked, mu, nRun,
                   busy>>

(* ------------------------------- run() -------------------------------- *)

\* A send that drops the message.
SendDrop(ch, m) == ch

\* `ch <- msg`
Send(ch, m) == [ch EXCEPT !.hist = Append(@, m)]

\* The receive with a single run() goroutine for the whole server.
runRecvSingle ==
    /\ busy = {}
    /\ nRun > 0
    /\ messages # <<>>
    /\ busy' = busy \cup {[pc |-> "lock", msg |-> Head(messages),
                           cur |-> Nil, seen |-> {}]}
    /\ messages' = Tail(messages)
    /\ UNCHANGED <<bearer, now, fanOut, chans, nPub, blocked, mu, nRun, conns,
                   removed>>

\* `case msg := <-s.messages` in one of the run() goroutines that wait there.
runRecv ==
    /\ Cardinality(busy) < nRun
    /\ messages # <<>>
    /\ busy' = busy \cup {[pc |-> "lock", msg |-> Head(messages),
                           cur |-> Nil, seen |-> {}]}
    /\ messages' = Tail(messages)
    /\ UNCHANGED <<bearer, now, fanOut, chans, nPub, blocked, mu, nRun, conns,
                   removed>>

\* The loop over s.fanOut started without taking the mutex.
runLockNoMutex(w) ==
    /\ w.pc = "lock"
    /\ IF Range(fanOut) = {}
       THEN busy' = busy \ {w}
       ELSE \E c \in Range(fanOut) :
               busy' = (busy \ {w}) \cup {[w EXCEPT !.pc = "iter", !.cur = c]}
    /\ UNCHANGED <<bearer, now, fanOut, chans, messages, nPub, blocked, mu,
                   nRun, conns, removed>>

\* s.mu.Lock() and the start of `range s.fanOut`; an empty map ends the
\* loop at once and the mutex is released.
runLock(w) ==
    /\ w.pc = "lock"
    /\ ~mu
    /\ IF Range(fanOut) = {}
       THEN /\ busy' = busy \ {w}
            /\ UNCHANGED mu
       ELSE /\ mu' = TRUE
            /\ \E c \in Range(fanOut) :
                  busy' = (busy \ {w}) \cup {[w EXCEPT !.pc = "iter", !.cur = c]}
    /\ UNCHANGED <<bearer, now, fanOut, chans, messages, nPub, blocked, nRun,
                   conns, removed>>

\* `ch <- msg` on the entry the loop is at, then the next entry of the map
\* in the order the runtime picks, or s.mu.Unlock() after the last one.
runSend(w) ==
    /\ w.pc = "iter"
    /\ ~Full(w.cur)
    /\ chans' = [chans EXCEPT ![w.cur] = Send(@, w.msg)]
    /\ LET seen == w.seen \cup {w.cur}
           rest == Range(fanOut) \ seen
       IN  IF rest = {}
           THEN /\ busy' = busy \ {w}
                /\ mu' = FALSE
           ELSE /\ \E c \in rest :
                     busy' = (busy \ {w}) \cup {[w EXCEPT !.cur = c, !.seen = seen]}
                /\ UNCHANGED mu
    /\ UNCHANGED <<bearer, now, fanOut, messages, nPub, blocked, nRun, conns,
                   removed>>

(* ---------------------------- specification --------------------------- *)

\* Request r to /webhook is one the handler turns down, or fewer than n
\* publishes were accepted so far.
Within(n, r) == webhookStatus(r[1], r[2], r[3]) = 200 => nPub + blocked < n

Next ==
    \/ \E r \in IndexRequests, t \in now..MaxClock : serveIndex(r[1], r[2], t)
    \/ \E r \in WebhookRequests(Headers) :
          Within(MaxMsgs, r) /\ webhookReceiver(r[1], r[2], r[3])
    \/ webhookSend
    \/ \E r \in LogsRequests : logOutput(r[1], r[2], r[3])
    \/ otherPath
    \/ \E k \in 1..Len(conns) : connLost(k)
    \/ \E k \in 1..Len(conns) : logOutputLoop(k)
    \/ \E k \in 1..Len(conns) : logOutputDefer(k)
    \/ runRecv
    \/ \E w \in busy : runLock(w)
    \/ \E w \in busy : runSend(w)

Spec == Init /\ [][Next]_vars

\* The steps of the goroutine that holds message m.
runLockOf(m) == \E w \in busy : w.msg = m /\ runLock(w)

runSendOf(m) == \E w \in busy : w.msg = m /\ runSend(w)

\* What the Go scheduler, channels and sync.Mutex guarantee: a goroutine
\* that can take a step takes it; a goroutine waiting for the mutex gets it
\* when it is released again and again (a waiter is handed the mutex once
\* it has waited long enough); the senders blocked on a full channel go on
\* in turn when there is room.  Requests and lost connections come from
\* outside and nothing says they ever happen.
Fairness ==
    /\ WF_vars(runRecv)
    /\ SF_vars(webhookSend)
    /\ \A m \in 1..MaxMsgs : SF_vars(runLockOf(m)) /\ WF_vars(runSendOf(m))
    /\ \A k \in 1..MaxConns :
          /\ WF_vars(k <= Len(conns) /\ logOutputLoop(k))
          /\ SF_vars(k <= Len(conns) /\ logOutputDefer(k))

FairSpec == Spec /\ Fairness

\* The server with more tokens and more Authorization headers, and no
\* /logs request: listeners are registered and sent to, none is read.
InitAuth == bearer \in AuthBearers /\ InitServer

NextAuth ==
    \/ \E r \in IndexRequests, t \in now..MaxClock : serveIndex(r[1], r[2], t)
    \/ \E r \in WebhookRequests(AuthHeaders) :
          Within(MaxMsgs, r) /\ webhookReceiver(r[1], r[2], r[3])
    \/ webhookSend
    \/ runRecv
    \/ \E w \in busy : runLock(w)
    \/ \E w \in busy : runSend(w)

SpecAuth == InitAuth /\ [][NextAuth]_vars

\* The server with no token and a single publish, which is what it takes
\* for a stream to find its connection lost and remove its session.
InitSessions == bearer = <<>> /\ InitServer

NextSessions ==
    \/ \E r \in IndexRequests, t \in now..MaxClock : serveIndex(r[1], r[2], t)
    \/ \E r \in WebhookRequests({<<>>}) :
          Within(MaxSessionMsgs, r) /\ webhookReceiver(r[1], r[2], r[3])
    \/ \E r \in LogsRequests : logOutput(r[1], r[2], r[3])
    \/ \E k \in 1..Len(conns) : connLost(k)
    \/ \E k \in 1..Len(conns) : logOutputLoop(k)
    \/ \E k \in 1..Len(conns) : logOutputDefer(k)
    \/ runRecv
    \/ \E w \in busy : runLock(w)
    \/ \E w \in busy : runSend(w)

SpecSessions == InitSessions /\ [][NextSessions]_vars

\* The server with no token whose /logs connections are never lost.
NextStreams ==
    \/ \E r \in IndexRequests, t \in now..MaxClock : serveIndex(r[1], r[2], t)
    \/ \E r \in WebhookRequests({<<>>}) :
          Within(MaxMsgs, r) /\ webhookReceiver(r[1], r[2], r[3])
    \/ webhookSend
    \/ \E r \in LogsRequests : logOutput(r[1], r[2], r[3])
    \/ \E k \in 1..Len(conns) : logOutputLoop(k)
    \/ runRecv
    \/ \E w \in busy : runLock(w)
    \/ \E w \in busy : runSend(w)

SpecStreams == InitSessions /\ [][NextStreams]_vars

\* The server with no /logs request, so that no listener's channel is ever
\* read, and up to MaxBacklog publishes.
NextBacklog ==
    \/ \E r \in IndexRequests, t \in now..MaxClock : serveIndex(r[1], r[2], t)
    \/ \E r \in WebhookRequests(Headers) : webhookReceiver(r[1], r[2], r[3])
    \/ webhookSend
    \/ otherPath
    \/ runRecv
    \/ \E w \in busy : runLock(w)
    \/ \E w \in busy : runSend(w)

SpecBacklog == Init /\ [][NextBacklog]_vars

\* The same scheduling as Fairness, for MaxBacklog messages and no stream.
FairnessBacklog ==
    /\ WF_vars(runRecv)
    /\ SF_vars(webhookSend)
    /\ \A m \in 1..MaxBacklog : SF_vars(runLockOf(m)) /\ WF_vars(runSendOf(m))

FairBacklog == SpecBacklog /\ FairnessBacklog

(* ------------------------------ properties ---------------------------- *)

Chans == 1..Len(chans)

Conns == 1..Len(conns)

\* Nothing is on its way: s.messages is empty and no run() goroutine holds
\* a message.
Quiescent == messages = <<>> /\ busy = {}

NoDuplicates(q) == \A i, j \in 1..Len(q) : i # j => q[i] # q[j]

\* C1: every message is pushed into every registered listener's channel
\* exactly once: no channel is ever sent the same message twice, and once
\* nothing is on its way any more, a channel that is still registered has
\* been sent every message published since it was registered, however many
\* run() goroutines were started.
C1_ExactlyOnce ==
    /\ \A c \in Chans : NoDuplicates(chans[c].hist)
    /\ Quiescent =>
          \A c \in Range(fanOut) :
             \A m \in (chans[c].regAt + 1)..nPub : m \in Range(chans[c].hist)

\* Two listeners registered before anything was published, two messages
\* published, several run() goroutines, and both messages in both channels.
C1_Witness ==
    /\ Quiescent
    /\ nRun >= 2
    /\ nPub = 2
    /\ Cardinality(Range(fanOut)) = 2
    /\ \A c \in Range(fanOut) : chans[c].regAt = 0 /\ Len(chans[c].hist) = 2

\* C2: every channel is sent the messages in the order webhookReceiver put
\* them on s.messages (messages are numbered in that order).
C2_PublishOrder ==
    \A c \in Chans :
       \A i, j \in 1..Len(chans[c].hist) :
          i < j => chans[c].hist[i] < chans[c].hist[j]

\* C4, as claimed: a channel is never sent a message that was published
\* before the channel was registered.
C4_NothingPublishedEarlier ==
    \A c \in Chans :
       \A i \in 1..Len(chans[c].hist) : chans[c].hist[i] > chans[c].regAt

\* C4, amended: a channel is never sent a message whose fan-out had begun
\* (a run() goroutine had taken it from s.messages and locked s.mu for it)
\* before the channel was registered; a message published earlier is sent
\* to it only when it was still on s.messages, or held by a goroutine
\* waiting for s.mu, at registration.
C4_NothingFannedOutEarlier ==
    \A c \in Chans :
       \A i \in 1..Len(chans[c].hist) :
          \/ chans[c].hist[i] > chans[c].regAt
          \/ chans[c].hist[i] \in chans[c].regPend

\* POST hello, GET /, GET /logs, POST world, with hello fanned out before
\* the GET /: the one frame the connection is sent is world.
C4_Witness ==
    \E k \in Conns :
       /\ chans[conns[k].ch].regAt = 1
       /\ chans[conns[k].ch].regPend = {}
       /\ nPub = 2
       /\ Quiescent
       /\ chans[conns[k].ch].hist = <<2>>
       /\ conns[k].sent = <<2>>

\* C6: nothing is sent on a channel that is no longer in the registry (one
\* removeListener deleted, or one a later addListener replaced).
C6_NoSendAfterRemove ==
    [][\A c \in Chans : c \notin Range(fanOut) => chans'[c].hist = chans[c].hist]_vars

\* A connection's deferred removeListener has returned, a message was
\* published and fanned out afterwards to another listener, and the removed
\* channel was not sent it.
C6_Witness ==
    \E k \in Conns :
       /\ conns[k].pc = "done"
       /\ conns[k].idx \in removed
       /\ conns[k].ch \notin Range(fanOut)
       /\ Quiescent
       /\ chans[conns[k].ch].hist = <<1>>
       /\ \E c \in Range(fanOut) : chans[c].hist = <<1, 2>>

\* C8: getListener reports nil for every identifier that addListener never
\* issued and for every identifier removeListener has deleted since.
C8_GetListenerNotFound ==
    \A idx \in 0..MaxClock :
       (idx \notin Issued \/ idx \in removed) => getListener(idx) = Nil

\* One identifier was issued and removed again and is not found, while
\* another one is still registered and 0 was never issued.
C8_Witness ==
    /\ \E idx \in removed : idx \in Issued /\ getListener(idx) = Nil
    /\ fanOut # EmptyMap
    /\ 0 \notin Issued

\* C10: at most one run() goroutine exists.
C10_OneBroadcastWorker == nRun <= 1

\* Connection k is open and its handler is in the range loop.
Connected(k) == conns[k].pc = "range" /\ conns[k].alive

\* No other connection reads the channel of connection k.
SoleReader(k) == \A j \in Conns \ {k} : conns[j].ch # conns[k].ch

\* The channel of connection k is still the one registered under its cookie.
Registered(k) == getListener(conns[k].idx) = conns[k].ch

\* Message m was published while connection k was connected, and k is
\* still connected, alone on its channel and registered.
Owed(k, m) ==
    IF k \in Conns
    THEN /\ Connected(k) /\ SoleReader(k) /\ Registered(k)
         /\ conns[k].since < m /\ m <= nPub
    ELSE FALSE

Settled(k, m) ==
    IF k \in Conns
    THEN \/ m \in Range(conns[k].sent)
         \/ ~Connected(k) \/ ~SoleReader(k) \/ ~Registered(k)
    ELSE FALSE

\* C3: every message published while connection k was connected is
\* eventually sent on it as a frame, unless the connection goes away (or,
\* leaving those cases aside, another connection starts to read the same
\* channel or the session is replaced in the registry); the other sessions
\* are free to do anything, such as never to open /logs.
C3_EventuallyDelivered ==
    \A k \in 1..MaxConns, m \in 1..MaxMsgs : Owed(k, m) ~> Settled(k, m)

\* C5: once the connection of a /logs stream is lost, the channel of its
\* session eventually leaves the registry.
C5_RemovedAfterClose ==
    \A k \in 1..MaxConns :
       (IF k \in Conns THEN ~conns[k].alive ELSE FALSE)
          ~> (IF k \in Conns THEN ~Registered(k) ELSE FALSE)

\* C7, as claimed: a GET / without a cookie, served at any clock reading t,
\* adds exactly one entry to the registry, under an identifier that was not
\* in it, and sets the idx cookie to that identifier.
C7_EntryPageAddsOneEntry ==
    [][\A t \in 1..MaxClock :
          serveIndex("GET", NoCookie, t) =>
             /\ t \notin DOMAIN fanOut
             /\ Cardinality(DOMAIN fanOut') = Cardinality(DOMAIN fanOut) + 1
             /\ serveIndexResponse("GET", NoCookie, t).status = 200
             /\ LET set == Cookie(serveIndexResponse("GET", NoCookie, t).cookie)
                IN  /\ parseCookie(set) \in DOMAIN fanOut'
                    /\ fanOut'[parseCookie(set)] = Len(chans')]_vars

\* The header is a scheme that reads "bearer" whatever its case, one space,
\* and the configured token.
IsBearerToken(auth) ==
    \E i \in 1..Len(auth) :
       /\ ToLower(SubSeq(auth, 1, i - 1)) = <<"b", "e", "a", "r", "e", "r">>
       /\ auth[i] = " "
       /\ SubSeq(auth, i + 1, Len(auth)) = bearer

\* The request's body is put on s.messages, or the handler waits to put it
\* there because s.messages is full.
Accepted ==
    \/ /\ Len(messages) < msgBuffer
       /\ messages' = Append(messages, nPub + 1)
       /\ nPub' = nPub + 1
       /\ blocked' = blocked
    \/ /\ Len(messages) >= msgBuffer
       /\ blocked' = blocked + 1
       /\ UNCHANGED <<messages, nPub>>

\* C9: with a token configured, a POST to /webhook whose body is read is
\* accepted (200, its body enqueued) when its Authorization header is the
\* bearer scheme, in any case, a space and the exact token, and answered 401
\* with nothing enqueued otherwise (absent header, other scheme, other
\* token); with no token configured every such POST is accepted.
C9_BearerCheck ==
    [][\A auth \in AuthHeaders :
          webhookReceiver("POST", auth, TRUE) =>
             IF bearer = <<>> \/ IsBearerToken(auth)
             THEN webhookStatus("POST", auth, TRUE) = 200 /\ Accepted
             ELSE /\ webhookStatus("POST", auth, TRUE) = 401
                  /\ UNCHANGED <<messages, nPub, blocked>>]_vars

\* A token is configured and a publish was accepted and taken by a run()
\* goroutine, while another waits on the full s.messages.
C9_Witness ==
    /\ bearer # <<>>
    /\ nPub = 1
    /\ blocked = 1
    /\ Len(messages) = msgBuffer

\* A run() goroutine holds s.mu and waits in `ch <- msg` on a full channel.
Stalled == mu /\ \E w \in busy : w.pc = "iter" /\ Full(w.cur)

\* C11: a POST to /webhook that passes the token check and whose body is
\* read is answered 200, at once when s.messages has room; its handler
\* waits only when s.messages holds msgBuffer messages, and every handler
\* that waits (blocked counts them) eventually goes on, also when a run()
\* goroutine is stopped for ever on a listener's full channel.
C11_PublishTerminates ==
    /\ [][\A r \in WebhookRequests(Headers) :
             webhookReceiver(r[1], r[2], r[3]) /\ blocked' > blocked =>
                /\ webhookStatus(r[1], r[2], r[3]) = 200
                /\ Len(messages) = msgBuffer]_vars
    /\ [][\A r \in WebhookRequests(Headers) :
             /\ webhookReceiver(r[1], r[2], r[3])
             /\ webhookStatus(r[1], r[2], r[3]) = 200
             /\ Len(messages) < msgBuffer
             => nPub' = nPub + 1 /\ blocked' = blocked]_vars
    /\ (blocked > 0) ~> (blocked = 0)

\* A handler waits to put its body on the full s.messages while a run()
\* goroutine is stopped on a full channel that nothing reads.
C11_Witness ==
    /\ blocked > 0
    /\ Len(messages) = msgBuffer
    /\ Stalled

\* C14: s.mu is never held for ever (a run() goroutine that holds it is
\* never stopped for ever in `ch <- msg`), so that addListener, getListener
\* and removeListener, which wait for it, eventually return.
C14_LockReleased == mu ~> ~mu

\* The cookie is absent, or its value is no decimal integer, or it is zero.
NoIdentifier(cookie) ==
    \/ ~cookie.present
    \/ ParseInt(cookie.value).err
    \/ ParseInt(cookie.value).val = 0

\* The cookie's value is an integer with no entry in the registry.
DeadIdentifier(cookie) ==
    /\ ~NoIdentifier(cookie)
    /\ ParseInt(cookie.value).val \notin DOMAIN fanOut

\* C12, as claimed: a GET /logs whose cookie is absent, or does not map to
\* an entry of the registry, is answered 401, and leaves the registry as it
\* is.
C12_LogsUnauthorized ==
    [][\A r \in LogsRequests :
          /\ r[1] = "GET"
          /\ logOutput(r[1], r[2], r[3])
          /\ NoIdentifier(r[2]) \/ DeadIdentifier(r[2])
          => /\ logOutputStatus(r[1], r[2], r[3]) = 401
             /\ UNCHANGED <<fanOut, chans>>]_vars

\* C12, amended: a GET /logs whose cookie is absent, or is no decimal
\* integer, or is zero, is answered 401; one whose cookie is an integer with
\* no entry in the registry is answered 400; neither starts a stream, and no
\* request to /logs, whatever it is answered, adds an entry to the registry
\* or makes a channel.
C12_LogsRejected ==
    [][\A r \in LogsRequests :
          logOutput(r[1], r[2], r[3]) =>
             /\ UNCHANGED <<fanOut, chans>>
             /\ r[1] = "GET" /\ NoIdentifier(r[2]) =>
                   logOutputStatus(r[1], r[2], r[3]) = 401 /\ UNCHANGED conns
             /\ r[1] = "GET" /\ DeadIdentifier(r[2]) =>
                   logOutputStatus(r[1], r[2], r[3]) = 400 /\ UNCHANGED conns]_vars

\* A session was registered, streamed and removed, and one request more was
\* served that left everything as it was, as a GET /logs with the cookie of
\* the removed session does.
C12_Witness ==
    /\ Len(conns) = 1
    /\ conns[1].pc = "done"
    /\ DeadIdentifier(Cookie(Sprint(conns[1].idx)))
    /\ fanOut = EmptyMap
    /\ Len(chans) = 1
    /\ nPub = 1
    /\ nRun = 4

\* The cookie's value is an integer with an entry in the registry.
LiveIdentifier(cookie) ==
    /\ ~NoIdentifier(cookie)
    /\ ParseInt(cookie.value).val \in DOMAIN fanOut

\* C13: a GET / whose cookie resolves to an entry of the registry leaves
\* the registry as it is, makes no channel, sets no cookie and is answered
\* 200.
C13_CookieReused ==
    [][\A r \in IndexRequests, t \in 1..MaxClock :
          /\ r[1] = "GET"
          /\ LiveIdentifier(r[2])
          /\ serveIndex(r[1], r[2], t)
          => /\ UNCHANGED <<fanOut, chans, removed>>
             /\ serveIndexResponse(r[1], r[2], t) = Response(200, <<>>)]_vars

\* One session is registered and a second request was served that left the
\* registry as it was, as a GET / with the session's cookie does.
C13_Witness ==
    /\ Cardinality(DOMAIN fanOut) = 1
    /\ Len(chans) = 1
    /\ \E idx \in DOMAIN fanOut : LiveIdentifier(Cookie(Sprint(idx)))
    /\ conns = <<>>
    /\ nPub = 0
    /\ nRun = 2

\* C15: a request to /webhook that is not a POST is answered 405, and a
\* POST that fails the check of the token 401, and both leave s.messages,
\* every listener's channel and the registry as they are; no handler is
\* left waiting either.
C15_RejectedPublishNoEffect ==
    [][\A r \in WebhookRequests(AuthHeaders) :
          /\ webhookReceiver(r[1], r[2], r[3])
          /\ r[1] # "POST" \/ (bearer # <<>> /\ ~IsBearerToken(r[2]))
          => /\ webhookStatus(r[1], r[2], r[3]) = IF r[1] # "POST" THEN 405 ELSE 401
             /\ UNCHANGED <<messages, nPub, blocked, chans, fanOut, removed>>]_vars

\* A token is configured, a session is registered and a message waits on
\* s.messages, and of the three requests served one left all of this as it
\* was, as a GET to /webhook or a POST with a wrong token does.
C15_Witness ==
    /\ bearer # <<>>
    /\ Len(chans) = 1
    /\ Cardinality(DOMAIN fanOut) = 1
    /\ nPub = 1
    /\ messages = <<1>>
    /\ blocked = 0
    /\ nRun = 3

\* C16: the removeListener(idx) a stream ends with leaves a registry that
\* has no entry under idx and has every other entry as it was; it leaves
\* the registry as it is when idx has no entry, as when a second stream of
\* the same session ends; and removing idx once more from what any
\* removal leaves changes nothing.
C16_RemoveIdempotent ==
    [][\A k \in Conns :
          logOutputDefer(k) =>
             /\ conns[k].idx \notin DOMAIN fanOut'
             /\ DOMAIN fanOut' = DOMAIN fanOut \ {conns[k].idx}
             /\ \A i \in DOMAIN fanOut' : fanOut'[i] = fanOut[i]
             /\ conns[k].idx \notin DOMAIN fanOut => fanOut' = fanOut
             /\ \A idx \in 0..MaxClock :
                   MapDelete(MapDelete(fanOut, idx), idx) = MapDelete(fanOut, idx)]_vars

\* Two streams of one session have ended, the second removeListener found
\* the identifier gone, and another session is still registered.
C16_Witness ==
    /\ Len(conns) = 2
    /\ conns[1].pc = "done" /\ conns[2].pc = "done"
    /\ conns[1].idx = conns[2].idx
    /\ conns[1].idx \notin DOMAIN fanOut
    /\ Cardinality(DOMAIN fanOut) = 1

\* Message a comes before message b in the sequence q.
Before(q, a, b) ==
    \E i, j \in 1..Len(q) : i < j /\ q[i] = a /\ q[j] = b

\* C17: any two messages that were both sent on two channels were sent in
\* the same order on both, however many run() goroutines there are.
C17_SameOrder ==
    \A c, d \in Chans :
       \A a, b \in 1..MaxMsgs :
          Before(chans[c].hist, a, b) => ~Before(chans[d].hist, b, a)

\* Two run() goroutines held the two messages at once, and both channels
\* were sent the second message before the first.
C17_Witness ==
    /\ Len(chans) = 2
    /\ chans[1].hist = <<2, 1>>
    /\ chans[2].hist = <<2, 1>>

\* C18: the frames pushed on a connection that is the only one of its
\* session are the messages sent on the session's channel since GET / made
\* it, from the first one on and in the order they were sent: the messages
\* the channel was sent before the connection was made come first, ahead
\* of every later one; and a channel holds at most msgBuffer messages.
C18_SubscribedFromEntryPage ==
    /\ \A c \in Chans : Len(Buf(c)) <= msgBuffer
    /\ \A k \in Conns :
          SoleReader(k) =>
             /\ Len(conns[k].sent) <= Len(chans[conns[k].ch].hist)
             /\ conns[k].sent =
                   SubSeq(chans[conns[k].ch].hist, 1, Len(conns[k].sent))

\* A message was published after the GET / of a session and before its
\* /logs connection was made, and the connection was pushed that message
\* and then the later one.
C18_Witness ==
    \E k \in Conns :
       /\ SoleReader(k)
       /\ chans[conns[k].ch].regAt = 0
       /\ conns[k].since = 1
       /\ conns[k].sent = <<1, 2>>
       /\ conns[k].sent = chans[conns[k].ch].hist

=============================================================================
